---------------------------- MODULE Spec2Model ----------------------------
(***************************************************************************)
(* Model of evaluation.py, the grand-challenge evaluation container of     *)
(* PI-CAI/PANORAMA: the manifest reader load_predictions_json, the file    *)
(* loader PICAILoader and the evaluator picai_gc_evaluator (load, score),  *)
(* run by the evalutils pipeline evaluate(): load, validate, score, save.  *)
(*                                                                         *)
(* Strings are sequences of character codes (ASCII), so that splitting,    *)
(* suffix tests, concatenation and the ordering of paths are computed and  *)
(* not assumed.                                                            *)
(***************************************************************************)
EXTENDS Integers, Sequences, FiniteSets, TLC

\* ------------------------------------------------------------ characters
\* the character codes the program's literals are made of
Ch == [dot |-> 46, d0 |-> 48, d2 |-> 50, under |-> 95, a |-> 97, g |-> 103,
       h |-> 104, i |-> 105, j |-> 106, m |-> 109, n |-> 110, o |-> 111,
       p |-> 112, s |-> 115, t |-> 116, w |-> 119, x |-> 120, y |-> 121,
       z |-> 122]

\* "_t2w", the token the subject id is split on
T2W == <<Ch.under, Ch.t, Ch.d2, Ch.w>>
\* ".mha"
MHA == <<Ch.dot, Ch.m, Ch.h, Ch.a>>
\* ".nii.gz"
NIIGZ == <<Ch.dot, Ch.n, Ch.i, Ch.i, Ch.dot, Ch.g, Ch.z>>
\* ".json"
JSON == <<Ch.dot, Ch.j, Ch.s, Ch.o, Ch.n>>

\* ------------------------------------------------------- string helpers
\* s[i..] starts with tok
StartsAt(s, i, tok) ==
    /\ i + Len(tok) - 1 <= Len(s)
    /\ \A k \in 1..Len(tok) : s[i + k - 1] = tok[k]

\* str.endswith
EndsWith(s, tok) ==
    /\ Len(s) >= Len(tok)
    /\ StartsAt(s, Len(s) - Len(tok) + 1, tok)

\* index of the first occurrence of tok in s at or after i, 0 when there is
\* none (str.find)
RECURSIVE FindFrom(_, _, _)
FindFrom(s, tok, i) ==
    IF i + Len(tok) - 1 > Len(s) THEN 0
    ELSE IF StartsAt(s, i, tok) THEN i
    ELSE FindFrom(s, tok, i + 1)

FirstIndex(s, tok) == FindFrom(s, tok, 1)

\* index of the last occurrence of tok in s at or before i, 0 when there is
\* none (str.rfind)
RECURSIVE FindBack(_, _, _)
FindBack(s, tok, i) ==
    IF i < 1 THEN 0
    ELSE IF StartsAt(s, i, tok) THEN i
    ELSE FindBack(s, tok, i - 1)

LastIndex(s, tok) == FindBack(s, tok, Len(s) - Len(tok) + 1)

\* the token occurs somewhere in s
Contains(s, tok) == FirstIndex(s, tok) # 0

\* a slip: the cut is made after the token instead of before it
SplitHeadKeepsToken(s, tok) ==
    IF FirstIndex(s, tok) = 0 THEN s
    ELSE SubSeq(s, 1, FirstIndex(s, tok) + Len(tok) - 1)

\* s.split(tok)[0]: the part of s before the first occurrence of tok, all of
\* s when tok does not occur
SplitHead(s, tok) ==
    IF FirstIndex(s, tok) = 0 THEN s ELSE SubSeq(s, 1, FirstIndex(s, tok) - 1)

\* subject_id = filename.split("_t2w")[0]
derive(filename) == SplitHead(filename, T2W)

\* pathlib's PurePath.suffix: the name from its last dot on, empty when the
\* last dot is the first or the last character or there is none
Suffix(name) ==
    LET i == LastIndex(name, <<Ch.dot>>)
    IN  IF 1 < i /\ i < Len(name) THEN SubSeq(name, i, Len(name)) ELSE <<>>

\* pathlib's PurePath.stem: the name without its suffix
Stem(name) == SubSeq(name, 1, Len(name) - Len(Suffix(name)))

\* ------------------------------------------------------- Python dicts
EmptyDict == [k \in {} |-> <<>>]

\* d[k] = v: the new value replaces an older one under the same key
DictPut(d, k, v) == (k :> v) @@ d

\* ---------------------------------------------------- the JSON manifest
\* A parsed JSON value.  kind is "float", "int", "bool", "null", "str" (chars:
\* its characters), "object" (items: its keys, as "str" values; an object that
\* is not a job), "list" (items: its elements) or "job" (an object with the keys
\* "pk", "inputs" and "outputs").
JsonValue(kind, chars, items, inputs, outputs) ==
    [kind |-> kind, chars |-> chars, items |-> items,
     inputs |-> inputs, outputs |-> outputs]

JScalar(kind) == JsonValue(kind, <<>>, <<>>, <<>>, <<>>)
JStr(chars) == JsonValue("str", chars, <<>>, <<>>, <<>>)
JObject(keys) == JsonValue("object", <<>>, keys, <<>>, <<>>)
JList(items) == JsonValue("list", <<>>, items, <<>>, <<>>)
JJob(inputs, outputs) == JsonValue("job", <<>>, <<>>, inputs, outputs)

\* the interface slugs of the program
SlugT2 == "transverse-t2-prostate-mri"
SlugDetMap == "cspca-detection-map"
SlugLikelihood == "cspca-case-level-likelihood"

\* one interface value of a job: {interface: {slug}, image: {name, pk}}
InterfaceValue(slug, name, pk) == [slug |-> slug, name |-> name, pk |-> pk]

\* whether `for entry in entries` can iterate the value at all
Iterable(doc) == doc.kind \in {"str", "object", "list"}

\* what `for entry in entries` yields: the elements of a list, the keys of an
\* object, the characters of a string
Entries(doc) ==
    CASE doc.kind = "list" -> doc.items
      [] doc.kind = "object" -> doc.items
      [] doc.kind = "str" -> [k \in 1..Len(doc.chars) |-> JStr(<<doc.chars[k]>>)]
      [] OTHER -> <<>>

\* lines 27-34: the subject id of the first input whose slug is the T2 slug
RECURSIVE FindSubject(_, _)
FindSubject(inputs, k) ==
    IF k > Len(inputs) THEN [found |-> FALSE, id |-> <<>>]
    ELSE IF inputs[k].slug = SlugT2
         THEN [found |-> TRUE, id |-> derive(inputs[k].name)]
         ELSE FindSubject(inputs, k + 1)

\* lines 39-41: the file name of a detection map
PkFileName(pk) == IF EndsWith(pk, MHA) THEN pk ELSE pk \o MHA

\* lines 37-42: every detection-map output of the entry is mapped to the
\* subject id; an entry without such an output adds nothing
RECURSIVE AddOutputs(_, _, _, _)
AddOutputs(outputs, k, subject_id, map) ==
    IF k > Len(outputs) THEN map
    ELSE IF outputs[k].slug = SlugDetMap
         THEN AddOutputs(outputs, k + 1, subject_id,
                         DictPut(map, PkFileName(outputs[k].pk), subject_id))
         ELSE AddOutputs(outputs, k + 1, subject_id, map)

\* lines 26-42: the body of the loop for one entry
ReadEntry(entry, map) ==
    CASE entry.kind = "job" ->
           LET s == FindSubject(entry.inputs, 1) IN
           IF ~s.found THEN [error |-> "ValueError", map |-> EmptyDict]
           ELSE [error |-> "none", map |-> AddOutputs(entry.outputs, 1, s.id, map)]
      \* entry["inputs"] on an object without that key
      [] entry.kind = "object" -> [error |-> "KeyError", map |-> EmptyDict]
      \* entry["inputs"] on a string, a number, a list, null
      [] OTHER -> [error |-> "TypeError", map |-> EmptyDict]

\* lines 25-42: the loop over the entries; the first failing entry raises
RECURSIVE ReadEntries(_, _, _)
ReadEntries(entries, k, acc) ==
    IF acc.error # "none" \/ k > Len(entries) THEN acc
    ELSE ReadEntries(entries, k + 1, ReadEntry(entries[k], acc.map))

\* load_predictions_json on the parsed document: the mapping from detection
\* map file name to subject id, or the exception raised
load_predictions_json(doc) ==
    IF doc.kind = "float" THEN [error |-> "TypeError", map |-> EmptyDict]
    ELSE IF ~Iterable(doc) THEN [error |-> "TypeError", map |-> EmptyDict]
    ELSE ReadEntries(Entries(doc), 1, [error |-> "none", map |-> EmptyDict])

\* ------------------------------------------------------ files and frames
\* the folder of a path: 0 is the ground truth folder, j > 0 the folder
\* <predictions>/<j>/output/images/cspca-detection-map of job j
GtDir == 0

Path(dir, name) == [dir |-> dir, name |-> name]

\* a directory entry: its path, whether it is a directory, and the hash of
\* its image
File(dir, name, isdir, hash) ==
    [path |-> Path(dir, name), isdir |-> isdir, hash |-> hash]

\* the order of two strings from index i on
RECURSIVE StrLessAt(_, _, _)
StrLessAt(a, b, i) ==
    IF i > Len(b) THEN FALSE
    ELSE IF i > Len(a) THEN TRUE
    ELSE IF a[i] # b[i] THEN a[i] < b[i]
    ELSE StrLessAt(a, b, i + 1)

\* the order of two paths: by folder, then by name
PathLess(p, q) ==
    \/ p.dir < q.dir
    \/ p.dir = q.dir /\ StrLessAt(p.name, q.name, 1)

\* file_sorter_key=lambda fname: fname.stem
file_sorter_key(f) == Stem(f.path.name)

\* the key a frame or a listing is sorted by
KeyOf(by, row) ==
    CASE by = "stem" -> file_sorter_key(row)
      [] by = "path" -> row.path
      [] by = "ground_truth_path" -> row.ground_truth_path

\* the order of two keys: stems are strings, the other keys are paths
KeyLess(by, x, y) ==
    IF by = "stem" THEN StrLessAt(KeyOf(by, x), KeyOf(by, y), 1)
    ELSE PathLess(KeyOf(by, x), KeyOf(by, y))

\* sorted(): ascending by key, equal keys in their order of arrival
SortedBy(s, by) == SortSeq(s, LAMBDA x, y : KeyLess(by, x, y))

\* the places k where s[k] and s[k + 1] have the same key
Ties(s, by) == {k \in 1..(Len(s) - 1) : KeyOf(by, s[k]) = KeyOf(by, s[k + 1])}

SwapAt(s, k) == [s EXCEPT ![k] = s[k + 1], ![k + 1] = s[k]]

\* S closed under exchanging two neighbours with the same key
RECURSIVE TieClosure(_, _)
TieClosure(S, ties) ==
    LET T == S \cup {SwapAt(s, k) : s \in S, k \in ties}
    IN  IF T = S THEN S ELSE TieClosure(T, ties)

\* DataFrame.sort_values(by): ascending by key; the order among rows with equal
\* keys is not fixed by its default algorithm, so every such order is a result
sort_values(df, by) ==
    LET sorted == SortedBy(df, by)
    IN  TieClosure({sorted}, Ties(sorted, by))

\* PICAILoader.load: directories and JSON files give no case, any other file
\* one case with the image's hash and its path
PICAILoader_load(f) ==
    IF f.isdir \/ Suffix(f.path.name) = JSON
    THEN <<>>
    ELSE <<[hash |-> f.hash, path |-> f.path]>>

\* cases += new_cases over the files lo..hi, in their order
RECURSIVE LoadAll(_, _, _)
LoadAll(files, lo, hi) ==
    IF lo > hi THEN <<>>
    ELSE IF lo = hi THEN PICAILoader_load(files[lo])
    ELSE LoadAll(files, lo, (lo + hi) \div 2) \o LoadAll(files, (lo + hi) \div 2 + 1, hi)

\* the cases of a folder: its entries in the order of file_sorter_key, each
\* loaded by the file loader
load_cases(folder) == LoadAll(SortedBy(folder, "stem"), 1, Len(folder))

\* line 157: Path(row.path).parent.parent.parent / "cspca-case-level-likelihood.json",
\* named by the job folder
LikelihoodPath(path) == path.dir

\* load_case_pred: the number in the file; NoFile when it cannot be read
NoFile == -1
load_case_pred(fs, fname) == IF fname \in DOMAIN fs THEN fs[fname] ELSE NoFile

\* line 164: ground_truth_path / (subject_id + ".nii.gz")
GroundTruthPath(subject_id) == Path(GtDir, subject_id \o NIIGZ)

\* a slip: the subject id is derived from the detection map's own file name
\* instead of being looked up in the mapping
PredictionRowFromFileName(row, map, fs) ==
    [path |-> row.path, hash |-> row.hash,
     subject_id |-> derive(row.path.name),
     cspca_case_level_likelihood |-> load_case_pred(fs, LikelihoodPath(row.path)),
     ground_truth_path |-> GroundTruthPath(derive(row.path.name))]

\* lines 149-166: the three columns added to a prediction row
PredictionRow(row, map, fs) ==
    [path |-> row.path, hash |-> row.hash,
     subject_id |-> map[row.path.name],
     cspca_case_level_likelihood |-> load_case_pred(fs, LikelihoodPath(row.path)),
     ground_truth_path |-> GroundTruthPath(map[row.path.name])]

\* -------------------------------------------------------------- the state
VARIABLES
    manifest,            \* the parsed /input/predictions.json
    gt_folder,           \* the entries of the ground truth folder
    pred_folder,         \* the entries of the predictions folder
    likelihood_files,    \* job folder -> the number in its likelihood file
    modified,            \* paths whose image changed after it was loaded
    pc,                  \* where the run is
    error,               \* the exception that ended the run, "none" if none
    mapping_dict,        \* self.mapping_dict
    ground_truth_cases,  \* self._ground_truth_cases
    predictions_cases,   \* self._predictions_cases
    idx,                 \* the pair the loop of score() is at
    gt_paths, pred_paths, subject_list, case_pred,   \* the locals of score()
    evaluate_calls,      \* calls of picai_eval.evaluate so far
    scorer_args,         \* the arguments of the call
    metrics,             \* the object evaluate() returned
    case_results,        \* self._case_results
    aggregate_results,   \* self._aggregate_results
    metrics_json,        \* the output file
    filename, subject_id, again   \* the subject id derivation on its own

vars == <<manifest, gt_folder, pred_folder, likelihood_files, modified, pc, error, mapping_dict,
          ground_truth_cases, predictions_cases, idx, gt_paths, pred_paths,
          subject_list, case_pred, evaluate_calls, scorer_args, metrics,
          case_results, aggregate_results, metrics_json,
          filename, subject_id, again>>

inputVars == <<manifest, gt_folder, pred_folder, likelihood_files, modified>>
loadVars == <<mapping_dict, ground_truth_cases, predictions_cases>>
loopVars == <<idx, gt_paths, pred_paths, subject_list, case_pred>>
deriveVars == <<filename, subject_id, again>>

\* NumberOfCasesValidator(num_cases=100)
num_cases == 100

NoMetrics == [returned |-> FALSE, case_pred |-> EmptyDict, num_cases |-> 0]
NoAggregates == [set |-> FALSE, ranked_by |-> EmptyDict, num_cases |-> 0]
NoOutput == [written |-> FALSE, aggregates |-> NoAggregates]
NoArgs == [y_det |-> <<>>, y_true |-> <<>>, subject_list |-> <<>>]

\* the run ends with the exception e
Raise(e) == pc' = "failed" /\ error' = e

\* --------------------------------------------------------------- load()
\* some prediction case has a file name the manifest does not map
Unmapped(cases, map) == \E k \in 1..Len(cases) : cases[k].path.name \notin DOMAIN map

\* some prediction case has no readable likelihood file
NoLikelihood(cases, fs) ==
    \E k \in 1..Len(cases) : load_case_pred(fs, LikelihoodPath(cases[k].path)) = NoFile

\* lines 138-146: the cases of both folders and the mapping of the manifest.
\* The library's _load_cases is not part of this repository: whether it refuses
\* a folder that gave no case at all (FileLoaderError) or returns an empty
\* frame is left open, and both outcomes are kept.
LoadCases ==
    /\ pc = "load"
    /\ \/ /\ load_cases(gt_folder) = <<>> \/ load_cases(pred_folder) = <<>>
          /\ Raise("FileLoaderError")
          /\ UNCHANGED loadVars
       \/ /\ ground_truth_cases' = load_cases(gt_folder)
          /\ predictions_cases' = load_cases(pred_folder)
          /\ LET r == load_predictions_json(manifest)
             IN  IF r.error # "none"
                 THEN Raise(r.error) /\ UNCHANGED mapping_dict
                 ELSE /\ mapping_dict' = r.map
                      /\ pc' = "columns"
                      /\ UNCHANGED error
    /\ UNCHANGED <<inputVars, loopVars, evaluate_calls, scorer_args, metrics,
                   case_results, aggregate_results, metrics_json, deriveVars>>

\* lines 148-174: the columns of the prediction cases, then both frames sorted
AlignCases ==
    /\ pc = "columns"
    /\ IF Unmapped(predictions_cases, mapping_dict)
       THEN Raise("KeyError") /\ UNCHANGED <<ground_truth_cases, predictions_cases>>
       ELSE IF NoLikelihood(predictions_cases, likelihood_files)
       THEN Raise("FileNotFoundError") /\ UNCHANGED <<ground_truth_cases, predictions_cases>>
       ELSE /\ pc' = "validate"
            /\ UNCHANGED error
            /\ ground_truth_cases' \in sort_values(ground_truth_cases, "path")
            /\ predictions_cases' \in
                  sort_values([k \in 1..Len(predictions_cases) |->
                                  PredictionRow(predictions_cases[k], mapping_dict,
                                                likelihood_files)],
                              "ground_truth_path")
    /\ UNCHANGED <<inputVars, mapping_dict, loopVars, evaluate_calls, scorer_args,
                   metrics, case_results, aggregate_results, metrics_json, deriveVars>>

\* ----------------------------------------------------------- validate()
\* a slip: the evaluator is built without the validator
NumberOfCasesAny(df) == TRUE

\* NumberOfCasesValidator.validate on one frame
NumberOfCasesValid(df) == Len(df) = num_cases

\* lines 71-73: the validators are run on both frames
Validate ==
    /\ pc = "validate"
    /\ IF NumberOfCasesValid(ground_truth_cases) /\ NumberOfCasesValid(predictions_cases)
       THEN pc' = "score" /\ UNCHANGED error
       ELSE Raise("ValidationError")
    /\ UNCHANGED <<inputVars, loadVars, loopVars, evaluate_calls, scorer_args,
                   metrics, case_results, aggregate_results, metrics_json, deriveVars>>

\* -------------------------------------------------------------- score()
\* zip() stops with the shorter frame
Pairs == IF Len(ground_truth_cases) <= Len(predictions_cases)
         THEN Len(ground_truth_cases) ELSE Len(predictions_cases)

\* a slip: the assertion is left out
AlignedUnchecked(gt_row, pred_row) == TRUE

\* line 90: the frames are aligned at this pair
Aligned(gt_row, pred_row) == pred_row.ground_truth_path = gt_row.path

\* hash_image(load_image(path)): the hash taken at load, unless the file
\* changed since
HashNow(row) == IF row.path \in modified THEN row.hash + 1 ELSE row.hash

\* a slip: only the ground truth image is hashed again
SameImagesGroundTruthOnly(gt_row, pred_row) == HashNow(gt_row) = gt_row.hash

\* lines 94-95: both images still are the ones that were loaded
SameImages(gt_row, pred_row) ==
    HashNow(gt_row) = gt_row.hash /\ HashNow(pred_row) = pred_row.hash

\* the rows whose image may be replaced on disk between load() and score()
ChangedRows == {2, num_cases}

\* a file of a loaded case is overwritten before score() reads it again
FileChanges ==
    /\ pc = "score"
    /\ idx = 1
    /\ modified = {}
    /\ \E k \in ChangedRows \cap (1..Pairs) :
          \E p \in {ground_truth_cases[k].path, predictions_cases[k].path} :
             modified' = {p}
    /\ UNCHANGED <<manifest, gt_folder, pred_folder, likelihood_files, pc, error,
                   loadVars, loopVars, evaluate_calls, scorer_args, metrics,
                   case_results, aggregate_results, metrics_json, deriveVars>>

\* lines 85-104: one turn of the loop
ScorePair ==
    /\ pc = "score"
    /\ idx <= Pairs
    /\ LET gt_row == ground_truth_cases[idx]
           pred_row == predictions_cases[idx]
       IN  IF ~Aligned(gt_row, pred_row)
           THEN Raise("AssertionError") /\ UNCHANGED loopVars
           ELSE IF ~SameImages(gt_row, pred_row)
           THEN Raise("RuntimeError") /\ UNCHANGED loopVars
           ELSE /\ gt_paths' = Append(gt_paths, gt_row.path)
                /\ pred_paths' = Append(pred_paths, pred_row.path)
                /\ subject_list' = Append(subject_list, pred_row.subject_id)
                /\ case_pred' = DictPut(case_pred, pred_row.subject_id,
                                        pred_row.cspca_case_level_likelihood)
                /\ idx' = idx + 1
                /\ UNCHANGED <<pc, error>>
    /\ UNCHANGED <<inputVars, loadVars, evaluate_calls, scorer_args, metrics,
                   case_results, aggregate_results, metrics_json, deriveVars>>

\* what the library derives from the detection maps as case-level prediction
DetectionMapScores == {2, 3}

\* lines 107-111: the one call of the scorer, which returns its metrics (with
\* its own case-level predictions) or raises
CallEvaluate ==
    /\ pc = "score"
    /\ idx > Pairs
    /\ evaluate_calls' = evaluate_calls + 1
    /\ scorer_args' = [y_det |-> pred_paths, y_true |-> gt_paths,
                       subject_list |-> subject_list]
    /\ \/ /\ \E d \in DetectionMapScores :
                metrics' = [returned |-> TRUE,
                            case_pred |-> [s \in {subject_list[k] : k \in 1..Len(subject_list)} |-> d],
                            num_cases |-> Len(subject_list)]
          /\ pc' = "overwrite"
          /\ UNCHANGED error
       \/ /\ Raise("ScorerError")
          /\ UNCHANGED metrics
    /\ UNCHANGED <<inputVars, loadVars, loopVars, case_results,
                   aggregate_results, metrics_json, deriveVars>>

\* a slip: the assignment of line 114 is left out
WithCasePredKept(m, cp) == m

\* line 114: metrics.case_pred = case_pred
WithCasePred(m, cp) == [m EXCEPT !.case_pred = cp]

\* lines 113-118
OverwriteCasePred ==
    /\ pc = "overwrite"
    /\ metrics' = WithCasePred(metrics, case_pred)
    /\ case_results' = metrics'
    /\ pc' = "aggregates"
    /\ UNCHANGED <<inputVars, loadVars, loopVars, error, evaluate_calls,
                   scorer_args, aggregate_results, metrics_json, deriveVars>>

\* lines 119-133: the aggregates read from the metrics object; the ranking
\* metrics (score, auroc, AP) are computed from its case-level predictions
Aggregates(m) == [set |-> TRUE, ranked_by |-> m.case_pred, num_cases |-> m.num_cases]

SetAggregates ==
    /\ pc = "aggregates"
    /\ aggregate_results' = Aggregates(metrics)
    /\ pc' = "save"
    /\ UNCHANGED <<inputVars, loadVars, loopVars, error, evaluate_calls,
                   scorer_args, metrics, case_results, metrics_json, deriveVars>>

\* line 178: evaluate() ends by writing {"case": ..., "aggregates": ...}
Save ==
    /\ pc = "save"
    /\ metrics_json' = [written |-> TRUE, aggregates |-> aggregate_results]
    /\ pc' = "done"
    /\ UNCHANGED <<inputVars, loadVars, loopVars, error, evaluate_calls,
                   scorer_args, metrics, case_results, aggregate_results, deriveVars>>

\* ------------------------------------------------------------ the inputs
\* A run's input is a cohort of regular cases 1..n (one job, one detection
\* map and one annotation each, as the platform produces them) plus a few
\* irregular jobs and files.
MaxFree == 1

Digits(i) == <<Ch.d0 + (i \div 100), Ch.d0 + ((i \div 10) % 10), Ch.d0 + (i % 10)>>

\* "007_t2w.mha"
CohortImage(i) == Digits(i) \o T2W \o MHA
\* "p007", and "p007.mha" for every other case
CohortPk(i) == IF i % 2 = 0 THEN <<Ch.p>> \o Digits(i) ELSE <<Ch.p>> \o Digits(i) \o MHA

CohortJob(i) ==
    JJob(<<InterfaceValue(SlugT2, CohortImage(i), <<>>)>>,
         <<InterfaceValue(SlugLikelihood, <<>>, <<>>),
           InterfaceValue(SlugDetMap, <<>>, CohortPk(i))>>)

CohortPrediction(i) == File(i, <<Ch.p>> \o Digits(i) \o MHA, FALSE, i)
CohortAnnotation(i) == File(GtDir, Digits(i) \o NIIGZ, FALSE, i)
CohortLikelihood(i) == i % 2

CohortJobs == [i \in 1..num_cases |-> CohortJob(i)]
CohortPredictions == [i \in 1..num_cases |-> CohortPrediction(i)]
CohortAnnotations == [i \in 1..num_cases |-> CohortAnnotation(i)]

\* what every non-empty folder also holds: a sub-directory and a JSON file
LikelihoodJson == <<Ch.x>> \o JSON
SubDir(dir) == File(dir, <<Ch.i, Ch.m, Ch.g>>, TRUE, 0)
JsonFile(dir) == File(dir, LikelihoodJson, FALSE, 0)

\* the irregular jobs: a new subject "x" with the detection map "px", a job
\* named as case 1 with the detection map "px", a job without a detection map
\* output, and a job without the T2 input
SlugOther == "coronal-t2-prostate-mri"
ImageX == <<Ch.x>> \o T2W \o MHA
PkX == <<Ch.p, Ch.x>>
FreeJobs ==
    { JJob(<<InterfaceValue(SlugT2, ImageX, <<>>)>>,
           <<InterfaceValue(SlugDetMap, <<>>, PkX)>>),
      JJob(<<InterfaceValue(SlugT2, CohortImage(1), <<>>)>>,
           <<InterfaceValue(SlugDetMap, <<>>, PkX)>>),
      JJob(<<InterfaceValue(SlugT2, ImageX, <<>>)>>,
           <<InterfaceValue(SlugLikelihood, <<>>, <<>>)>>),
      JJob(<<InterfaceValue(SlugOther, ImageX, <<>>)>>,
           <<InterfaceValue(SlugDetMap, <<>>, PkX)>>) }

\* the irregular detection maps: "px.mha" of job 201, a second "px.mha" of
\* job 202, which has no likelihood file, and "py.mha" of job 203, which no
\* manifest names
FreePredictions ==
    { File(201, PkX \o MHA, FALSE, 201),
      File(202, PkX \o MHA, FALSE, 202),
      File(203, <<Ch.p, Ch.y>> \o MHA, FALSE, 203) }
FreeLikelihoods == (201 :> 1) @@ (203 :> 0)

\* the irregular annotations: "x.nii.gz" and "y.nii.gz"
FreeAnnotations ==
    { File(GtDir, <<Ch.x>> \o NIIGZ, FALSE, 301),
      File(GtDir, <<Ch.y>> \o NIIGZ, FALSE, 302) }

\* sequences over S of length at most n
RECURSIVE SeqsUpTo(_, _)
SeqsUpTo(S, n) ==
    IF n = 0 THEN {<<>>}
    ELSE LET shorter == SeqsUpTo(S, n - 1)
         IN  shorter \cup {Append(s, x) : s \in {t \in shorter : Len(t) = n - 1}, x \in S}

\* a set of files as a folder listing, in the order of their folders and names
RECURSIVE Listing(_)
Listing(S) ==
    IF S = {} THEN <<>>
    ELSE LET f == CHOOSE g \in S : \A h \in S : h = g \/ PathLess(g.path, h.path)
         IN  <<f>> \o Listing(S \ {f})

\* the sizes of the cohort: none, or so many that the irregular cases can
\* bring the number of cases to num_cases
CohortSizes == {0} \cup ((num_cases - MaxFree)..num_cases)

InitRun ==
    \E n \in CohortSizes, jobs \in SeqsUpTo(FreeJobs, MaxFree),
       preds \in SUBSET FreePredictions, annots \in SUBSET FreeAnnotations :
        /\ manifest = JList(SubSeq(CohortJobs, 1, n) \o jobs)
        /\ pred_folder =
              (IF n = 0 THEN <<>> ELSE <<SubDir(1), JsonFile(1)>>)
              \o SubSeq(CohortPredictions, 1, n) \o Listing(preds)
        /\ gt_folder =
              (IF n = 0 THEN <<>> ELSE <<SubDir(GtDir), JsonFile(GtDir)>>)
              \o SubSeq(CohortAnnotations, 1, n) \o Listing(annots)
        /\ likelihood_files =
              [d \in (1..n) \cup ({f.path.dir : f \in preds} \cap DOMAIN FreeLikelihoods) |->
                  IF d <= num_cases THEN CohortLikelihood(d) ELSE FreeLikelihoods[d]]
        /\ modified = {}

Init ==
    /\ InitRun
    /\ pc = "load"
    /\ error = "none"
    /\ mapping_dict = EmptyDict
    /\ ground_truth_cases = <<>>
    /\ predictions_cases = <<>>
    /\ idx = 1
    /\ gt_paths = <<>>
    /\ pred_paths = <<>>
    /\ subject_list = <<>>
    /\ case_pred = EmptyDict
    /\ evaluate_calls = 0
    /\ scorer_args = NoArgs
    /\ metrics = NoMetrics
    /\ case_results = NoMetrics
    /\ aggregate_results = NoAggregates
    /\ metrics_json = NoOutput
    /\ filename = <<>>
    /\ subject_id = <<>>
    /\ again = <<>>

Next ==
    \/ LoadCases
    \/ AlignCases
    \/ Validate
    \/ FileChanges
    \/ ScorePair
    \/ CallEvaluate
    \/ OverwriteCasePred
    \/ SetAggregates
    \/ Save

Spec == Init /\ [][Next]_vars

\* ------------------------------------------- the manifest reader alone
\* load_predictions_json on documents of every JSON type
MaxEntries == 2

\* nothing of the evaluator has run: no folders, no frames, no scoring state
Idle ==
    /\ error = "none"
    /\ mapping_dict = EmptyDict
    /\ gt_folder = <<>>
    /\ pred_folder = <<>>
    /\ likelihood_files = EmptyDict
    /\ modified = {}
    /\ ground_truth_cases = <<>>
    /\ predictions_cases = <<>>
    /\ idx = 1
    /\ gt_paths = <<>>
    /\ pred_paths = <<>>
    /\ subject_list = <<>>
    /\ case_pred = EmptyDict
    /\ evaluate_calls = 0
    /\ scorer_args = NoArgs
    /\ metrics = NoMetrics
    /\ case_results = NoMetrics
    /\ aggregate_results = NoAggregates
    /\ metrics_json = NoOutput

\* the entries a list may hold: jobs with and without the T2 input and the
\* detection map output, an object that is no job, a number, a string
ReaderEntries ==
    { JJob(ins, outs) :
        ins \in { <<>>,
                  <<InterfaceValue(SlugT2, ImageX, <<>>)>>,
                  <<InterfaceValue(SlugOther, ImageX, <<>>),
                    InterfaceValue(SlugT2, CohortImage(1), <<>>)>> },
        outs \in { <<>>,
                   <<InterfaceValue(SlugDetMap, <<>>, PkX)>>,
                   <<InterfaceValue(SlugLikelihood, <<>>, <<>>),
                     InterfaceValue(SlugDetMap, <<>>, PkX \o MHA),
                     InterfaceValue(SlugDetMap, <<>>, <<Ch.p, Ch.y>>)>> } }
    \cup {JObject(<<>>), JScalar("int"), JStr(<<Ch.a>>)}

Documents ==
    {JScalar(k) : k \in {"float", "int", "bool", "null"}}
    \cup {JStr(s) : s \in {<<>>, <<Ch.a>>, MHA}}
    \cup {JObject(keys) : keys \in {<<>>, <<JStr(<<Ch.p, Ch.x>>)>>,
                                     <<JStr(<<Ch.a>>), JStr(<<Ch.p, Ch.x>>)>>}}
    \cup {JList(items) : items \in SeqsUpTo(ReaderEntries, MaxEntries)}

InitReader ==
    /\ manifest \in Documents
    /\ pc = "read"
    /\ Idle
    /\ filename = <<>>
    /\ subject_id = <<>>
    /\ again = <<>>

\* lines 12-44, on the document json.load returned
ReadManifest ==
    /\ pc = "read"
    /\ LET r == load_predictions_json(manifest)
       IN  /\ error' = r.error
           /\ mapping_dict' = r.map
           /\ pc' = IF r.error = "none" THEN "returned" ELSE "failed"
    /\ UNCHANGED <<inputVars, ground_truth_cases, predictions_cases, loopVars,
                   evaluate_calls, scorer_args, metrics, case_results,
                   aggregate_results, metrics_json, deriveVars>>

NextReader == ReadManifest

SpecReader == InitReader /\ [][NextReader]_vars

\* --------------------------------------- the subject id derivation alone
\* file names put together from the pieces the token is made of
MaxParts == 4

NameParts ==
    { <<Ch.a>>, <<Ch.under>>, <<Ch.t, Ch.d2, Ch.w>>, T2W,
      <<Ch.under, Ch.t, Ch.d2>>, <<Ch.w>>, MHA }

RECURSIVE Names(_)
Names(n) ==
    IF n = 0 THEN {<<>>}
    ELSE LET shorter == Names(n - 1)
         IN  shorter \cup {s \o part : s \in shorter, part \in NameParts}

InitDerive ==
    /\ filename \in Names(MaxParts)
    /\ subject_id = <<>>
    /\ again = <<>>
    /\ pc = "derive"
    /\ manifest = JList(<<>>)
    /\ Idle

\* line 31, on the name of the input image
DeriveSubject ==
    /\ pc = "derive"
    /\ subject_id' = derive(filename)
    /\ pc' = "derive_again"
    /\ UNCHANGED <<inputVars, error, loadVars, loopVars, evaluate_calls,
                   scorer_args, metrics, case_results, aggregate_results,
                   metrics_json, filename, again>>

\* line 31, on the subject id it gave
DeriveAgain ==
    /\ pc = "derive_again"
    /\ again' = derive(subject_id)
    /\ pc' = "derived"
    /\ UNCHANGED <<inputVars, error, loadVars, loopVars, evaluate_calls,
                   scorer_args, metrics, case_results, aggregate_results,
                   metrics_json, filename, subject_id>>

NextDerive == DeriveSubject \/ DeriveAgain

SpecDerive == InitDerive /\ [][NextDerive]_vars

\* ------------------------------------------------------- the properties
\* the positions of the run at which both frames carry all their columns
Matched == {"validate", "score", "overwrite", "aggregates", "save", "done"}

\* the run ended
Ended == pc \in {"failed", "done"}

\* the elements of a sequence
Range(s) == {s[k] : k \in 1..Len(s)}

\* the image files of a folder: neither a directory nor named *.json
ImagePaths(folder) ==
    {f.path : f \in {g \in Range(folder) : ~g.isdir /\ Suffix(g.path.name) # JSON}}

\* every job of the manifest has a T2 input and a detection map output
WellFormed ==
    /\ manifest.kind = "list"
    /\ \A e \in Range(manifest.items) :
          /\ e.kind = "job"
          /\ \E v \in Range(e.inputs) : v.slug = SlugT2
          /\ \E v \in Range(e.outputs) : v.slug = SlugDetMap

\* some job of the manifest has no detection map output
JobWithoutDetectionMap ==
    /\ manifest.kind = "list"
    /\ \E e \in Range(manifest.items) :
          e.kind = "job" /\ \A v \in Range(e.outputs) : v.slug # SlugDetMap

\* the subject ids of the prediction cases
SubjectIds == {predictions_cases[k].subject_id : k \in 1..Len(predictions_cases)}

\* two prediction cases have the same subject id
Collision == Cardinality(SubjectIds) < Len(predictions_cases)

\* C1 as stated: when the matcher has run on a well-formed manifest of N jobs,
\* there are exactly N case records and their subject ids are pairwise distinct.
C1_OneRecordPerJob ==
    (pc = "validate" /\ WellFormed) =>
        /\ Len(predictions_cases) = Len(manifest.items)
        /\ ~Collision

\* C1 as amended: when load() is through, there is exactly one case record per
\* image file found in the predictions folder (not one per job), each with the
\* subject id the manifest maps its file name to; the cases handed to the
\* scorer are exactly num_cases and their subject ids are pairwise distinct.
C1_OneRecordPerFile ==
    /\ pc = "validate" =>
          /\ {predictions_cases[k].path : k \in 1..Len(predictions_cases)}
                = ImagePaths(pred_folder)
          /\ Len(predictions_cases) = Cardinality(ImagePaths(pred_folder))
          /\ \A k \in 1..Len(predictions_cases) :
                predictions_cases[k].subject_id
                   = mapping_dict[predictions_cases[k].path.name]
    /\ evaluate_calls > 0 =>
          /\ Len(predictions_cases) = num_cases
          /\ Len(scorer_args.subject_list) = num_cases
          /\ ~Collision

\* a well-formed manifest whose jobs all have their file: N jobs, N records
C1_Witness ==
    /\ pc = "validate"
    /\ WellFormed
    /\ Len(manifest.items) = num_cases
    /\ Len(predictions_cases) = num_cases
    /\ \E e \in Range(manifest.items) : e.inputs[1].name = ImageX

\* C2: a manifest with a job that has no detection map output makes the
\* matcher (load_predictions_json, then load) fail, before the scorer is called.
C2_MissingOutputFails ==
    JobWithoutDetectionMap =>
        \/ pc \in {"load", "columns"}
        \/ /\ pc = "failed"
           /\ error \in {"FileLoaderError", "TypeError", "ValueError", "KeyError",
                          "FileNotFoundError"}
           /\ evaluate_calls = 0

\* the job without a detection map was passed over and the run wrote its metrics
C2_SkippedAndScored ==
    /\ JobWithoutDetectionMap
    /\ pc = "done"
    /\ metrics_json.written

\* the derived ground truth paths and the ground truth cases correspond one to one
OneToOne ==
    LET derived == [k \in 1..Len(predictions_cases) |->
                       predictions_cases[k].ground_truth_path]
        found == [k \in 1..Len(ground_truth_cases) |-> ground_truth_cases[k].path]
    IN  /\ Len(derived) = Len(found)
        /\ Range(derived) = Range(found)
        /\ Cardinality(Range(derived)) = Len(derived)
        /\ Range(found) = ImagePaths(gt_folder)

\* C3: whenever the ground truth paths derived from the predictions and the
\* ground truth files found on disk are not in one-to-one correspondence, the
\* scorer is never called and the run does not complete.
C3_MismatchNeverScored ==
    (evaluate_calls > 0 \/ pc \in {"overwrite", "aggregates", "save", "done"})
        => OneToOne

\* two predictions for one ground truth file, frames of equal size: the run
\* stopped at the assertion
C3_Witness ==
    /\ pc = "failed"
    /\ error = "AssertionError"
    /\ Len(predictions_cases) = Len(ground_truth_cases)
    /\ Collision
    /\ evaluate_calls = 0

\* every pair of the two frames has the prediction's ground truth path equal
\* to the ground truth's path, and neither of its two images changed on disk
AllPairsPass ==
    \A k \in 1..Pairs :
        /\ predictions_cases[k].ground_truth_path = ground_truth_cases[k].path
        /\ ground_truth_cases[k].path \notin modified
        /\ predictions_cases[k].path \notin modified

\* C4: the scorer is called at most once and only after every pair passed the
\* alignment assertion and the hash check; when a pair fails, the scorer is
\* never called, the aggregates are never set and nothing is written.
C4_AllOrNothing ==
    /\ evaluate_calls <= 1
    /\ evaluate_calls = 1 =>
          /\ AllPairsPass
          /\ Len(scorer_args.y_det) = Pairs
    /\ error \in {"AssertionError", "RuntimeError"} =>
          /\ evaluate_calls = 0
          /\ ~aggregate_results.set
          /\ ~metrics_json.written
    /\ (aggregate_results.set \/ metrics_json.written) => evaluate_calls = 1

\* some pairs were stored, then one failed the hash check
C4_Witness ==
    /\ pc = "failed"
    /\ error = "RuntimeError"
    /\ Len(gt_paths) > 0
    /\ evaluate_calls = 0
    /\ ~metrics_json.written

\* C5: the library's case-level predictions are replaced by the supplied
\* likelihoods after evaluate() returned and before any aggregate is read; the
\* mapping then holds, for every subject of subject_list, the likelihood loaded
\* for it, and nothing else.
C5_LikelihoodsReplaceDefault ==
    /\ pc = "overwrite" => (metrics.returned /\ ~aggregate_results.set)
    /\ aggregate_results.set =>
          /\ aggregate_results.ranked_by = case_pred
          /\ metrics.case_pred = case_pred
          /\ DOMAIN case_pred = Range(scorer_args.subject_list)
          /\ \A k \in 1..Len(scorer_args.subject_list) :
                case_pred[scorer_args.subject_list[k]]
                   = load_case_pred(likelihood_files,
                                    LikelihoodPath(scorer_args.y_det[k]))

\* the aggregates were read from a metrics object of num_cases cases
C5_Witness ==
    /\ pc = "save"
    /\ aggregate_results.set
    /\ Cardinality(DOMAIN aggregate_results.ranked_by) = num_cases

\* C6 as stated: given two cases whose subject ids collide (in frames of the
\* size the validator asks for), the later one overwrites the earlier one in
\* case_pred and the run goes on to the scorer.
C6_CollisionScored ==
    (/\ Ended
     /\ error \in {"none", "AssertionError"}
     /\ Len(predictions_cases) = num_cases
     /\ Len(ground_truth_cases) = num_cases
     /\ Collision)
        => /\ evaluate_calls > 0
           /\ Cardinality(DOMAIN case_pred) < Len(subject_list)

\* C6 as amended: given two prediction cases whose subject ids collide, the run
\* never reaches the scorer: it ends in validation or at the alignment
\* assertion, before the second of them is stored, so that no entry of
\* case_pred is ever overwritten.
C6_CollisionAborts ==
    pc \in Matched \cup {"failed"} =>
        /\ Cardinality(DOMAIN case_pred) = Len(subject_list)
        /\ Cardinality(Range(subject_list)) = Len(subject_list)
        /\ (pc \in Matched /\ Collision) =>
              /\ evaluate_calls = 0
              /\ pc \in {"validate", "score"}

\* the first of two colliding cases was stored, the second stopped the run
C6_Witness ==
    /\ pc = "failed"
    /\ error = "AssertionError"
    /\ idx <= Len(predictions_cases)
    /\ predictions_cases[idx].subject_id \in DOMAIN case_pred

\* no jobs, no files
NoCases == manifest.kind = "list" /\ manifest.items = <<>>
           /\ pred_folder = <<>> /\ gt_folder = <<>>

\* C7 as stated: with no jobs and no cases the run completes and writes an
\* output with the key 'aggregates'.
C7_EmptyRunWrites ==
    (NoCases /\ Ended) => (pc = "done" /\ metrics_json.written)

\* C7 as amended: with no jobs and no cases the run ends with an error before
\* the scorer is called (at the latest in validation, which asks for num_cases
\* cases) and writes nothing; an output is written only by a run of num_cases
\* cases, and it holds the aggregates.
C7_EmptyRunAborts ==
    /\ NoCases => /\ pc \in {"load", "columns", "validate", "failed"}
                  /\ error \in {"none", "FileLoaderError", "ValidationError"}
                  /\ evaluate_calls = 0
                  /\ ~metrics_json.written
    /\ metrics_json.written =>
          /\ metrics_json.aggregates.set
          /\ metrics_json.aggregates.num_cases = num_cases

\* the empty run was stopped by the validator
C7_Witness ==
    /\ NoCases
    /\ pc = "failed"
    /\ error = "ValidationError"

\* C8: the reader fails on every document that is not a list: scalars, strings
\* (the empty one too) and objects (the empty one too) never give a mapping.
C8_NonListFails ==
    (pc \in {"returned", "failed"} /\ manifest.kind # "list") => error # "none"

\* the reader returned a mapping for a document that is no list
C8_NonListAccepted ==
    /\ pc = "returned"
    /\ manifest.kind \in {"str", "object"}
    /\ mapping_dict = EmptyDict

\* C9: the derivation is idempotent, and a derived id never holds the token.
C9_DeriveIdempotent ==
    /\ pc \in {"derive_again", "derived"} =>
          /\ ~Contains(subject_id, T2W)
          /\ subject_id = SubSeq(filename, 1, Len(subject_id))
          /\ Contains(filename, T2W) => StartsAt(filename, Len(subject_id) + 1, T2W)
          /\ ~Contains(filename, T2W) => subject_id = filename
    /\ pc = "derived" => again = subject_id

\* a name with the token twice was cut at the first one
C9_Witness ==
    /\ pc = "derived"
    /\ Contains(filename, T2W)
    /\ Contains(SubSeq(filename, Len(subject_id) + 2, Len(filename)), T2W)
    /\ Len(subject_id) > 0

\* C10: the three lists handed to the scorer have the same length and are
\* aligned: y_true[i] is a ground truth file of the folder and is the path
\* derived from subject_list[i], y_det[i] is the detection map the manifest
\* maps to subject_list[i].
C10_ScorerArgsAligned ==
    evaluate_calls > 0 =>
        LET a == scorer_args IN
        /\ Len(a.y_det) = Len(a.y_true)
        /\ Len(a.subject_list) = Len(a.y_true)
        /\ Range(a.y_true) \subseteq ImagePaths(gt_folder)
        /\ Range(a.y_det) \subseteq ImagePaths(pred_folder)
        /\ \A i \in 1..Len(a.y_true) :
              /\ a.y_true[i] = GroundTruthPath(a.subject_list[i])
              /\ a.y_det[i].name \in DOMAIN mapping_dict
              /\ mapping_dict[a.y_det[i].name] = a.subject_list[i]

\* the scorer was called with the irregular subject "x" among num_cases cases
C10_Witness ==
    /\ evaluate_calls = 1
    /\ Len(scorer_args.y_true) = num_cases
    /\ <<Ch.x>> \in Range(scorer_args.subject_list)

=============================================================================
